---- MODULE Spec2Model ----
(***************************************************************************)
(* Model of mem0/client/main.py: MemoryClient and AsyncMemoryClient.       *)
(*                                                                         *)
(* A client is a session (the attributes set by __init__) plus the HTTP    *)
(* transports it opened.  Every public method is one action: the server's  *)
(* answers and the health of the telemetry sink are the inputs, and the    *)
(* action records in `last` what the call did (the requests and telemetry  *)
(* events in order) and what the caller observed (value or exception).     *)
(*                                                                         *)
(* Python values: None is the string None, "" is the empty string, and a   *)
(* dict is a function from a finite set of key strings.                    *)
(***************************************************************************)
EXTENDS Integers, Sequences, FiniteSets, TLC

VARIABLES client, session, given, transports, last, pure

vars == <<client, session, given, transports, last, pure>>

\* ------------------------------------------------------------------ bounds

\* Longest entity listing the server returns to users()/delete_users().
MaxEntities == 2

\* ------------------------------------------------------------ Python values

None == "None"

\* bool(v) of an Optional[str]: None and "" are falsy.
Truthy(v) == v /= None /\ v /= ""

EmptyMap == <<>>

\* d[k] = v on a dict.
Put(d, k, v) == (k :> v) @@ d

\* {k: v for k, v in d.items() if v is not None}
StripNone(d) == [k \in {j \in DOMAIN d : d[j] /= None} |-> d[k]]

\* d without the keys ks (dict.pop of each).
Without(d, ks) == [k \in (DOMAIN d) \ ks |-> d[k]]

\* An Optional[Dict] argument: given = FALSE is the argument left out (None).
NoKwargs == [given |-> FALSE, map |-> EmptyMap]
Kw(m) == [given |-> TRUE, map |-> m]

\* ------------------------------------------------------------------ errors

ErrNoApiKey == "ValueError: Mem0 API Key not provided"
ErrNotBoth == "ValueError: either org_id/project_id or org_name/project_name, not both"
ErrIdPair == "ValueError: provide both org_id and project_id"
ErrNamePair == "ValueError: provide both org_name and project_name"
ErrInvalidKey == "ValueError: Invalid API Key"
ErrProjectIds == "ValueError: org_id and project_id must be set"
ErrProjectArgs == "ValueError: must provide custom_instructions or custom_categories"
ErrAPI == "APIError"
ErrHTTPStatus == "httpx.HTTPStatusError"
ErrRequest == "httpx.RequestError"
ErrAttribute == "AttributeError: no attribute _prepare_params"
ErrUnbound == "UnboundLocalError: response"
ErrNotImplemented == "NotImplementedError"
ErrTelemetry == "TelemetryError"

\* ------------------------------------------------- parameter reconciliation

\* The result of _prepare_params: the mapping returned (ok) or the exception
\* raised, and the caller's dict as the call leaves it (the code assigns
\* into the dict it was handed).
PPRaise(e, kw) == [ok |-> FALSE, err |-> e, out |-> EmptyMap, kwargs_after |-> kw]
PPReturn(m, kw) == [ok |-> TRUE, err |-> "", out |-> m, kwargs_after |-> kw]

\* Variants of _prepare_params with one slip each.
\* Caller-supplied org_id/project_id win over the session's (setdefault).
PrepareParamsCallerWins(self, kwargs_in) ==
    LET kwargs == IF kwargs_in.given THEN kwargs_in.map ELSE EmptyMap
        k1 == IF Truthy(self.org_id) /\ Truthy(self.project_id)
              THEN kwargs @@ ("org_id" :> self.org_id) @@ ("project_id" :> self.project_id)
              ELSE kwargs
    IN  IF (Truthy(self.org_id) \/ Truthy(self.project_id))
           /\ (Truthy(self.organization) \/ Truthy(self.project))
        THEN PPRaise(ErrNotBoth, kwargs)
        ELSE IF ~(Truthy(self.org_id) /\ Truthy(self.project_id))
                /\ (Truthy(self.org_id) \/ Truthy(self.project_id))
        THEN PPRaise(ErrIdPair, kwargs)
        ELSE IF ~(Truthy(self.organization) /\ Truthy(self.project))
                /\ (Truthy(self.organization) \/ Truthy(self.project))
        THEN PPRaise(ErrNamePair, k1)
        ELSE LET k2 == IF Truthy(self.organization) /\ Truthy(self.project)
                       THEN Put(Put(k1, "org_name", self.organization),
                                "project_name", self.project)
                       ELSE k1
             IN  PPReturn(StripNone(k2), k2)

\* The final comprehension is left out: null entries are returned.
PrepareParamsKeepsNone(self, kwargs_in) ==
    LET kwargs == IF kwargs_in.given THEN kwargs_in.map ELSE EmptyMap
        k1 == IF Truthy(self.org_id) /\ Truthy(self.project_id)
              THEN Put(Put(kwargs, "org_id", self.org_id), "project_id", self.project_id)
              ELSE kwargs
    IN  IF (Truthy(self.org_id) \/ Truthy(self.project_id))
           /\ (Truthy(self.organization) \/ Truthy(self.project))
        THEN PPRaise(ErrNotBoth, kwargs)
        ELSE IF ~(Truthy(self.org_id) /\ Truthy(self.project_id))
                /\ (Truthy(self.org_id) \/ Truthy(self.project_id))
        THEN PPRaise(ErrIdPair, kwargs)
        ELSE IF ~(Truthy(self.organization) /\ Truthy(self.project))
                /\ (Truthy(self.organization) \/ Truthy(self.project))
        THEN PPRaise(ErrNamePair, k1)
        ELSE LET k2 == IF Truthy(self.organization) /\ Truthy(self.project)
                       THEN Put(Put(k1, "org_name", self.organization),
                                "project_name", self.project)
                       ELSE k1
             IN  PPReturn(k2, k2)

\* The elif of the legacy name pair is left out: a lone name is ignored.
PrepareParamsNoNamePairCheck(self, kwargs_in) ==
    LET kwargs == IF kwargs_in.given THEN kwargs_in.map ELSE EmptyMap
        k1 == IF Truthy(self.org_id) /\ Truthy(self.project_id)
              THEN Put(Put(kwargs, "org_id", self.org_id), "project_id", self.project_id)
              ELSE kwargs
    IN  IF (Truthy(self.org_id) \/ Truthy(self.project_id))
           /\ (Truthy(self.organization) \/ Truthy(self.project))
        THEN PPRaise(ErrNotBoth, kwargs)
        ELSE IF ~(Truthy(self.org_id) /\ Truthy(self.project_id))
                /\ (Truthy(self.org_id) \/ Truthy(self.project_id))
        THEN PPRaise(ErrIdPair, kwargs)
        ELSE LET k2 == IF Truthy(self.organization) /\ Truthy(self.project)
                       THEN Put(Put(k1, "org_name", self.organization),
                                "project_name", self.project)
                       ELSE k1
             IN  PPReturn(StripNone(k2), k2)

\* MemoryClient._prepare_params(self, kwargs=None)
_prepare_params(self, kwargs_in) ==
    LET kwargs == IF kwargs_in.given THEN kwargs_in.map ELSE EmptyMap
        has_new == Truthy(self.org_id) \/ Truthy(self.project_id)
        has_old == Truthy(self.organization) \/ Truthy(self.project)
        \* kwargs["org_id"] = self.org_id; kwargs["project_id"] = self.project_id
        k1 == IF Truthy(self.org_id) /\ Truthy(self.project_id)
              THEN Put(Put(kwargs, "org_id", self.org_id), "project_id", self.project_id)
              ELSE kwargs
        \* kwargs["org_name"] = self.organization; kwargs["project_name"] = self.project
        k2 == IF Truthy(self.organization) /\ Truthy(self.project)
              THEN Put(Put(k1, "org_name", self.organization), "project_name", self.project)
              ELSE k1
    IN  IF has_new /\ has_old
        THEN PPRaise(ErrNotBoth, kwargs)
        ELSE IF ~(Truthy(self.org_id) /\ Truthy(self.project_id)) /\ has_new
        THEN PPRaise(ErrIdPair, kwargs)
        ELSE IF ~(Truthy(self.organization) /\ Truthy(self.project)) /\ has_old
        THEN PPRaise(ErrNamePair, k1)
        ELSE PPReturn(StripNone(k2), k2)

\* ------------------------------------------------------------ payload builder

\* The messages argument of add(): a str, a list of {role, content}, or None.
MsgStr(t) == [kind |-> "str", text |-> t, list |-> <<>>]
MsgList(l) == [kind |-> "list", text |-> "", list |-> l]
MsgNone == [kind |-> "none", text |-> "", list |-> <<>>]

\* A payload builder that copies the options without the `is not None` filter.
PreparePayloadKeepsNone(messages, kwargs) ==
    LET payload == IF messages.kind = "str"
                   THEN ("messages" :> <<[role |-> "user", content |-> messages.text]>>)
                   ELSE IF messages.kind = "list"
                   THEN ("messages" :> messages.list)
                   ELSE EmptyMap
    IN  kwargs @@ payload

\* MemoryClient._prepare_payload(self, messages, kwargs)
_prepare_payload(messages, kwargs) ==
    LET payload == IF messages.kind = "str"
                   THEN ("messages" :> <<[role |-> "user", content |-> messages.text]>>)
                   ELSE IF messages.kind = "list"
                   THEN ("messages" :> messages.list)
                   ELSE EmptyMap
    IN  \* payload.update({k: v for k, v in kwargs.items() if v is not None})
        StripNone(kwargs) @@ payload

\* ------------------------------------------------- HTTP exchange, telemetry

HTTP_OK == 200

\* A decoded JSON body: an opaque datum, the "results" listing of
\* /v1/entities/, and the org_id / project_id of /v1/ping/.
Body(d, rs, o, p) == [data |-> d, results |-> rs, org_id |-> o, project_id |-> p]
NoBody == Body("", <<>>, None, None)

\* What the server (or the transport) answers to one request.
\*   ok            a 2xx response with status `code` and JSON `body`
\*   status_error  a non-2xx response: raise_for_status() raises HTTPStatusError
\*   request_error no response: the transport raises httpx.RequestError
Resp(o, c, b) == [outcome |-> o, code |-> c, body |-> b]

\* One entry of a call's trace: a request put on the wire with the way it
\* ended, or an event handed to the telemetry sink (its name and whether the
\* sink failed on it; the event's data, a summary of the arguments, is left
\* out: nothing in the client reads it back).
Req(method, path, params, json, resp) ==
    [kind |-> "request", name |-> method, path |-> path, params |-> params,
     json |-> json, outcome |-> resp.outcome]
Tel(name, sink_fails) ==
    [kind |-> "telemetry", name |-> name, path |-> "", params |-> EmptyMap,
     json |-> EmptyMap, outcome |-> IF sink_fails THEN "sink_failed" ELSE "ok"]

\* What a call did and how it ended, before any decorator.
Raised(e, trace) == [raised |-> TRUE, err |-> e, value |-> NoBody, trace |-> trace]
Returned(v, trace) == [raised |-> FALSE, err |-> "", value |-> v, trace |-> trace]

\* A sink that lets its own failure escape to the caller.
CaptureClientEventThrows(name, sink_fails) ==
    [raised |-> sink_fails, err |-> ErrTelemetry, event |-> Tel(name, sink_fails)]

\* mem0.memory.telemetry.capture_client_event(name, instance, data): hands the
\* event to the sink; a failure inside the sink is swallowed, the call returns.
capture_client_event(name, sink_fails) ==
    [raised |-> FALSE, err |-> "", event |-> Tel(name, sink_fails)]

\* capture_client_event(name, self, data) as a statement of a method: the
\* event joins the trace and an exception the call raised propagates (there
\* is no try around it).
Capture(name, sink_fails, trace) ==
    LET cap == capture_client_event(name, sink_fails)
    IN  IF cap.raised THEN Raised(cap.err, Append(trace, cap.event))
        ELSE Returned(NoBody, Append(trace, cap.event))

\* response = self.client.<method>(path, params=.., json=..)
\* response.raise_for_status()
\* The value is response.json() when both went through.
Exchange(trace, method, path, params, json, resp) ==
    LET t == Append(trace, Req(method, path, params, json, resp))
    IN  IF resp.outcome = "request_error" THEN Raised(ErrRequest, t)
        ELSE IF resp.outcome = "status_error" THEN Raised(ErrHTTPStatus, t)
        ELSE Returned(resp.body, t)

\* The body shared by the one-request operations:
\*   response = <request>; response.raise_for_status()
\*   capture_client_event(name, ...); return response.json()
RequestCaptureReturn(trace, method, path, params, json, resp, name, sink_fails) ==
    LET x == Exchange(trace, method, path, params, json, resp)
        c == Capture(name, sink_fails, x.trace)
    IN  IF x.raised THEN x
        ELSE IF c.raised THEN c
        ELSE Returned(x.value, c.trace)

\* The decorator's except clauses, on a call that ran inside its try.
Convert(r) ==
    IF r.raised /\ r.err \in {ErrHTTPStatus, ErrRequest}
    THEN [r EXCEPT !.err = ErrAPI]
    ELSE r

\* api_error_handler(func): wrapper runs func(*args, **kwargs) inside
\* try/except.  For an `async def` func that call only builds the coroutine
\* object and returns it; the body runs when the caller awaits it, outside
\* the try, so what it raises reaches the caller as raised.
api_error_handler(is_coroutine, r) ==
    IF is_coroutine THEN r ELSE Convert(r)

\* ----------------------------------------------- MemoryClient's operations
\* self is the session; resps[i] is the answer to the i-th request the call
\* sends; sink_fails tells whether the telemetry sink fails during the call.
\* Each definition is the method's body; the decorator is applied where the
\* method is called.

\* MemoryClient.add(self, messages, **kwargs)
add(self, messages, kwargs, resps, sink_fails) ==
    LET p == _prepare_params(self, Kw(kwargs))
    IN  IF ~p.ok THEN Raised(p.err, <<>>)
        ELSE RequestCaptureReturn(<<>>, "POST", "/v1/memories/", EmptyMap,
                                  _prepare_payload(messages, p.out), resps[1],
                                  "client.add", sink_fails)

\* MemoryClient.get(self, memory_id)
get(self, memory_id, resps, sink_fails) ==
    LET p == _prepare_params(self, NoKwargs)
    IN  IF ~p.ok THEN Raised(p.err, <<>>)
        ELSE RequestCaptureReturn(<<>>, "GET", "/v1/memories/" \o memory_id \o "/",
                                  p.out, EmptyMap, resps[1], "client.get", sink_fails)

\* MemoryClient.get_all(self, version="v1", **kwargs)
get_all(self, version, kwargs, resps, sink_fails) ==
    LET p == _prepare_params(self, Kw(kwargs))
        params == p.out
        path == "/" \o version \o "/memories/"
        pg == {"page", "page_size"}
    IN  IF ~p.ok THEN Raised(p.err, <<>>)
        ELSE IF version = "v1"
        THEN RequestCaptureReturn(<<>>, "GET", path, params, EmptyMap, resps[1],
                                  "client.get_all", sink_fails)
        ELSE IF version = "v2"
        THEN IF "page" \in DOMAIN params /\ "page_size" \in DOMAIN params
             THEN \* query_params = {"page": params.pop("page"), "page_size": params.pop("page_size")}
                  RequestCaptureReturn(<<>>, "POST", path,
                                       [k \in pg |-> params[k]],
                                       Without(params, pg), resps[1],
                                       "client.get_all", sink_fails)
             ELSE RequestCaptureReturn(<<>>, "POST", path, EmptyMap, params, resps[1],
                                       "client.get_all", sink_fails)
        \* neither branch binds `response`: response.raise_for_status() fails
        ELSE Raised(ErrUnbound, <<>>)

\* MemoryClient.search(self, query, version="v1", **kwargs)
search(self, query, version, kwargs, resps, sink_fails) ==
    LET p == _prepare_params(self, Kw(kwargs))
    IN  IF ~p.ok THEN Raised(p.err, <<>>)
        ELSE RequestCaptureReturn(<<>>, "POST", "/" \o version \o "/memories/search/",
                                  EmptyMap, p.out @@ ("query" :> query), resps[1],
                                  "client.search", sink_fails)

\* MemoryClient.update(self, memory_id, data): the event is captured first.
update(self, memory_id, data, resps, sink_fails) ==
    LET c == Capture("client.update", sink_fails, <<>>)
        p == _prepare_params(self, NoKwargs)
    IN  IF c.raised THEN c
        ELSE IF ~p.ok THEN Raised(p.err, c.trace)
        ELSE Exchange(c.trace, "PUT", "/v1/memories/" \o memory_id \o "/", p.out,
                      ("text" :> data), resps[1])

\* MemoryClient.delete(self, memory_id)
delete(self, memory_id, resps, sink_fails) ==
    LET p == _prepare_params(self, NoKwargs)
    IN  IF ~p.ok THEN Raised(p.err, <<>>)
        ELSE RequestCaptureReturn(<<>>, "DELETE", "/v1/memories/" \o memory_id \o "/",
                                  p.out, EmptyMap, resps[1], "client.delete", sink_fails)

\* MemoryClient.delete_all(self, **kwargs)
delete_all(self, kwargs, resps, sink_fails) ==
    LET p == _prepare_params(self, Kw(kwargs))
    IN  IF ~p.ok THEN Raised(p.err, <<>>)
        ELSE RequestCaptureReturn(<<>>, "DELETE", "/v1/memories/", p.out, EmptyMap,
                                  resps[1], "client.delete_all", sink_fails)

\* MemoryClient.history(self, memory_id)
history(self, memory_id, resps, sink_fails) ==
    LET p == _prepare_params(self, NoKwargs)
    IN  IF ~p.ok THEN Raised(p.err, <<>>)
        ELSE RequestCaptureReturn(<<>>, "GET",
                                  "/v1/memories/" \o memory_id \o "/history/",
                                  p.out, EmptyMap, resps[1], "client.history", sink_fails)

\* MemoryClient.users(self); `trace` is what the caller's call did so far and
\* resp the answer to the listing request.
users(self, trace, resp, sink_fails) ==
    LET p == _prepare_params(self, NoKwargs)
    IN  IF ~p.ok THEN Raised(p.err, trace)
        ELSE RequestCaptureReturn(trace, "GET", "/v1/entities/", p.out, EmptyMap,
                                  resp, "client.users", sink_fails)

\* entities["results"] entry: {"type": .., "id": ..}
Entity(t, i) == [type |-> t, id |-> i]
EntityPath(e) == "/v1/entities/" \o e.type \o "/" \o e.id \o "/"

MsgUsersDeleted == Body("All users, agents, and sessions deleted.", <<>>, None, None)
MsgReset == Body("Client reset successful. All users and memories deleted.", <<>>, None, None)

\* A loop that does not check the status of a DELETE and goes on.
RECURSIVE DeleteLoopGoesOn(_, _, _, _, _)
DeleteLoopGoesOn(entities, i, params, trace, resps) ==
    IF i > Len(entities) THEN Returned(NoBody, trace)
    ELSE DeleteLoopGoesOn(entities, i + 1, params,
                          Append(trace, Req("DELETE", EntityPath(entities[i]), params,
                                            EmptyMap, resps[i + 1])),
                          resps)

\* for entity in entities["results"]:
\*     response = self.client.delete(f"/v1/entities/{type}/{id}/", params=params)
\*     response.raise_for_status()
\* from the i-th entity on; the listing was request 1, so the DELETE of the
\* i-th entity is request i + 1.  (The async client's loop is the same.)
RECURSIVE DeleteLoop(_, _, _, _, _)
DeleteLoop(entities, i, params, trace, resps) ==
    IF i > Len(entities) THEN Returned(NoBody, trace)
    ELSE LET r == Exchange(trace, "DELETE", EntityPath(entities[i]), params, EmptyMap,
                           resps[i + 1])
         IN  IF r.raised THEN r
             ELSE DeleteLoop(entities, i + 1, params, r.trace, resps)

\* MemoryClient.delete_users(self)
delete_users(self, trace, resps, sink_fails) ==
    LET p == _prepare_params(self, NoKwargs)
        entities == api_error_handler(FALSE, users(self, trace, resps[1], sink_fails))
        loop == DeleteLoop(entities.value.results, 1, p.out, entities.trace, resps)
        c == Capture("client.delete_users", sink_fails, loop.trace)
    IN  IF ~p.ok THEN Raised(p.err, trace)
        ELSE IF entities.raised THEN entities
        ELSE IF loop.raised THEN loop
        ELSE IF c.raised THEN c
        ELSE Returned(MsgUsersDeleted, c.trace)

\* MemoryClient.reset(self)
reset(self, resps, sink_fails) ==
    LET d == api_error_handler(FALSE, delete_users(self, <<>>, resps, sink_fails))
        c == Capture("client.reset", sink_fails, d.trace)
    IN  IF d.raised THEN d
        ELSE IF c.raised THEN c
        ELSE Returned(MsgReset, c.trace)

\* MemoryClient.batch_update(self, memories)
batch_update(self, memories, resps, sink_fails) ==
    RequestCaptureReturn(<<>>, "PUT", "/v1/batch/", EmptyMap, ("memories" :> memories),
                         resps[1], "client.batch_update", sink_fails)

\* MemoryClient.batch_delete(self, memories)
batch_delete(self, memories, resps, sink_fails) ==
    RequestCaptureReturn(<<>>, "DELETE", "/v1/batch/", EmptyMap, ("memories" :> memories),
                         resps[1], "client.batch_delete", sink_fails)

\* MemoryClient.create_memory_export(self, schema, **kwargs)
create_memory_export(self, schema, kwargs, resps, sink_fails) ==
    LET p == _prepare_params(self, Kw(kwargs))
    IN  IF ~p.ok THEN Raised(p.err, <<>>)
        ELSE \* json={"schema": schema, **self._prepare_params(kwargs)}
             RequestCaptureReturn(<<>>, "POST", "/v1/exports/", EmptyMap,
                                  p.out @@ ("schema" :> schema), resps[1],
                                  "client.create_memory_export", sink_fails)

\* MemoryClient.get_memory_export(self, **kwargs)
get_memory_export(self, kwargs, resps, sink_fails) ==
    LET p == _prepare_params(self, Kw(kwargs))
    IN  IF ~p.ok THEN Raised(p.err, <<>>)
        ELSE RequestCaptureReturn(<<>>, "GET", "/v1/exports/", p.out, EmptyMap, resps[1],
                                  "client.get_memory_export", sink_fails)

\* f"/api/v1/orgs/organizations/{org_id}/projects/{project_id}/"
ProjectPath(self) ==
    "/api/v1/orgs/organizations/" \o self.org_id \o "/projects/" \o self.project_id \o "/"

\* get_project with the identifier check after the request.
GetProjectChecksLate(self, fields, resps, sink_fails) ==
    LET p == _prepare_params(self, Kw(("fields" :> fields)))
        x == Exchange(<<>>, "GET", "/api/v1/orgs/organizations/", p.out, EmptyMap,
                      resps[1])
    IN  IF ~p.ok THEN Raised(p.err, <<>>)
        ELSE IF x.raised THEN x
        ELSE IF ~(Truthy(self.org_id) /\ Truthy(self.project_id))
        THEN Raised(ErrProjectIds, x.trace)
        ELSE x

\* MemoryClient.get_project(self, fields=None)
get_project(self, fields, resps, sink_fails) ==
    LET p == _prepare_params(self, Kw(("fields" :> fields)))
    IN  IF ~(Truthy(self.org_id) /\ Truthy(self.project_id))
        THEN Raised(ErrProjectIds, <<>>)
        ELSE IF ~p.ok THEN Raised(p.err, <<>>)
        ELSE RequestCaptureReturn(<<>>, "GET", ProjectPath(self), p.out, EmptyMap,
                                  resps[1], "client.get_project_details", sink_fails)

\* MemoryClient.update_project(self, custom_instructions=None, custom_categories=None)
update_project(self, custom_instructions, custom_categories, resps, sink_fails) ==
    LET p == _prepare_params(self, Kw(("custom_instructions" :> custom_instructions)
                                      @@ ("custom_categories" :> custom_categories)))
    IN  IF ~(Truthy(self.org_id) /\ Truthy(self.project_id))
        THEN Raised(ErrProjectIds, <<>>)
        ELSE IF custom_instructions = None /\ custom_categories = None
        THEN Raised(ErrProjectArgs, <<>>)
        ELSE IF ~p.ok THEN Raised(p.err, <<>>)
        ELSE RequestCaptureReturn(<<>>, "PATCH", ProjectPath(self), EmptyMap, p.out,
                                  resps[1], "client.update_project", sink_fails)

\* MemoryClient.chat(self) and AsyncMemoryClient.chat(self)
chat == Raised(ErrNotImplemented, <<>>)

\* ------------------------------------------ AsyncMemoryClient's operations
\* self is the session of self.sync_client; each definition is the body of
\* the coroutine, run when the caller awaits it.

\* AsyncMemoryClient.add(self, messages, **kwargs)
async_add(self, messages, kwargs, resps, sink_fails) ==
    LET p == _prepare_params(self, Kw(kwargs))
    IN  IF ~p.ok THEN Raised(p.err, <<>>)
        ELSE RequestCaptureReturn(<<>>, "POST", "/v1/memories/", EmptyMap,
                                  _prepare_payload(messages, p.out), resps[1],
                                  "async_client.add", sink_fails)

\* AsyncMemoryClient.get(self, memory_id)
async_get(self, memory_id, resps, sink_fails) ==
    LET p == _prepare_params(self, NoKwargs)
    IN  IF ~p.ok THEN Raised(p.err, <<>>)
        ELSE RequestCaptureReturn(<<>>, "GET", "/v1/memories/" \o memory_id \o "/",
                                  p.out, EmptyMap, resps[1], "async_client.get", sink_fails)

\* AsyncMemoryClient.get_all(self, version="v1", **kwargs)
async_get_all(self, version, kwargs, resps, sink_fails) ==
    LET p == _prepare_params(self, Kw(kwargs))
        path == "/" \o version \o "/memories/"
    IN  IF ~p.ok THEN Raised(p.err, <<>>)
        ELSE IF version = "v1"
        THEN RequestCaptureReturn(<<>>, "GET", path, p.out, EmptyMap, resps[1],
                                  "async_client.get_all", sink_fails)
        ELSE IF version = "v2"
        THEN RequestCaptureReturn(<<>>, "POST", path, EmptyMap, p.out, resps[1],
                                  "async_client.get_all", sink_fails)
        ELSE Raised(ErrUnbound, <<>>)

\* AsyncMemoryClient.search(self, query, version="v1", **kwargs)
async_search(self, query, version, kwargs, resps, sink_fails) ==
    LET p == _prepare_params(self, Kw(kwargs))
    IN  IF ~p.ok THEN Raised(p.err, <<>>)
        ELSE RequestCaptureReturn(<<>>, "POST", "/" \o version \o "/memories/search/",
                                  EmptyMap, p.out @@ ("query" :> query), resps[1],
                                  "async_client.search", sink_fails)

\* AsyncMemoryClient.update(self, memory_id, data)
async_update(self, memory_id, data, resps, sink_fails) ==
    LET p == _prepare_params(self, NoKwargs)
    IN  IF ~p.ok THEN Raised(p.err, <<>>)
        ELSE RequestCaptureReturn(<<>>, "PUT", "/v1/memories/" \o memory_id \o "/",
                                  p.out, ("text" :> data), resps[1],
                                  "async_client.update", sink_fails)

\* AsyncMemoryClient.delete(self, memory_id)
async_delete(self, memory_id, resps, sink_fails) ==
    LET p == _prepare_params(self, NoKwargs)
    IN  IF ~p.ok THEN Raised(p.err, <<>>)
        ELSE RequestCaptureReturn(<<>>, "DELETE", "/v1/memories/" \o memory_id \o "/",
                                  p.out, EmptyMap, resps[1], "async_client.delete",
                                  sink_fails)

\* AsyncMemoryClient.delete_all(self, **kwargs)
async_delete_all(self, kwargs, resps, sink_fails) ==
    LET p == _prepare_params(self, Kw(kwargs))
    IN  IF ~p.ok THEN Raised(p.err, <<>>)
        ELSE RequestCaptureReturn(<<>>, "DELETE", "/v1/memories/", p.out, EmptyMap,
                                  resps[1], "async_client.delete_all", sink_fails)

\* AsyncMemoryClient.history(self, memory_id)
async_history(self, memory_id, resps, sink_fails) ==
    LET p == _prepare_params(self, NoKwargs)
    IN  IF ~p.ok THEN Raised(p.err, <<>>)
        ELSE RequestCaptureReturn(<<>>, "GET",
                                  "/v1/memories/" \o memory_id \o "/history/",
                                  p.out, EmptyMap, resps[1], "async_client.history",
                                  sink_fails)

\* AsyncMemoryClient.users(self)
async_users(self, trace, resp, sink_fails) ==
    LET p == _prepare_params(self, NoKwargs)
    IN  IF ~p.ok THEN Raised(p.err, trace)
        ELSE RequestCaptureReturn(trace, "GET", "/v1/entities/", p.out, EmptyMap,
                                  resp, "async_client.users", sink_fails)

\* AsyncMemoryClient.delete_users(self)
async_delete_users(self, trace, resps, sink_fails) ==
    LET p == _prepare_params(self, NoKwargs)
        \* entities = await self.users()
        entities == api_error_handler(TRUE, async_users(self, trace, resps[1], sink_fails))
        loop == DeleteLoop(entities.value.results, 1, p.out, entities.trace, resps)
        c == Capture("async_client.delete_users", sink_fails, loop.trace)
    IN  IF ~p.ok THEN Raised(p.err, trace)
        ELSE IF entities.raised THEN entities
        ELSE IF loop.raised THEN loop
        ELSE IF c.raised THEN c
        ELSE Returned(MsgUsersDeleted, c.trace)

\* AsyncMemoryClient.reset(self)
async_reset(self, resps, sink_fails) ==
    LET d == api_error_handler(TRUE, async_delete_users(self, <<>>, resps, sink_fails))
        c == Capture("async_client.reset", sink_fails, d.trace)
    IN  IF d.raised THEN d
        ELSE IF c.raised THEN c
        ELSE Returned(MsgReset, c.trace)

\* AsyncMemoryClient.batch_update(self, memories)
async_batch_update(self, memories, resps, sink_fails) ==
    RequestCaptureReturn(<<>>, "PUT", "/v1/batch/", EmptyMap, ("memories" :> memories),
                         resps[1], "async_client.batch_update", sink_fails)

\* AsyncMemoryClient.batch_delete(self, memories)
async_batch_delete(self, memories, resps, sink_fails) ==
    RequestCaptureReturn(<<>>, "DELETE", "/v1/batch/", EmptyMap, ("memories" :> memories),
                         resps[1], "async_client.batch_delete", sink_fails)

\* AsyncMemoryClient.create_memory_export(self, schema, **kwargs): the
\* argument self._prepare_params(kwargs) is evaluated before the request, and
\* AsyncMemoryClient defines no _prepare_params.
async_create_memory_export(self, schema, kwargs, resps, sink_fails) ==
    Raised(ErrAttribute, <<>>)

\* AsyncMemoryClient.get_memory_export(self, **kwargs): self._prepare_params
async_get_memory_export(self, kwargs, resps, sink_fails) ==
    Raised(ErrAttribute, <<>>)

\* AsyncMemoryClient.get_project(self, fields=None): self._prepare_params
async_get_project(self, fields, resps, sink_fails) ==
    IF ~(Truthy(self.org_id) /\ Truthy(self.project_id))
    THEN Raised(ErrProjectIds, <<>>)
    ELSE Raised(ErrAttribute, <<>>)

\* AsyncMemoryClient.update_project(self, custom_instructions, custom_categories)
async_update_project(self, custom_instructions, custom_categories, resps, sink_fails) ==
    LET p == _prepare_params(self, Kw(("custom_instructions" :> custom_instructions)
                                      @@ ("custom_categories" :> custom_categories)))
    IN  IF ~(Truthy(self.org_id) /\ Truthy(self.project_id))
        THEN Raised(ErrProjectIds, <<>>)
        ELSE IF ~p.ok THEN Raised(p.err, <<>>)
        ELSE RequestCaptureReturn(<<>>, "PATCH", ProjectPath(self), EmptyMap, p.out,
                                  resps[1], "async_client.update_project", sink_fails)

\* ----------------------------------------------------------- construction

DefaultHost == "https://api.mem0.ai"
UserId == "uid"

\* a or b
PyOr(a, b) == IF Truthy(a) THEN a ELSE b

\* The transports a client opens.
SyncTransport == "httpx.Client"
AsyncTransport == "httpx.AsyncClient"

NoSession ==
    [api_key |-> None, host |-> None, organization |-> None, project |-> None,
     org_id |-> None, project_id |-> None, user_id |-> None]

\* MemoryClient._validate_api_key(self): the session after it and how it ended.
_validate_api_key(self, ping) ==
    LET p == _prepare_params(self, NoKwargs)
        t == <<Req("GET", "/v1/ping/", p.out, EmptyMap, ping)>>
        data == ping.body
    IN  IF ~p.ok THEN [self |-> self, res |-> Raised(p.err, <<>>)]
        ELSE IF ping.outcome = "request_error"
        THEN [self |-> self, res |-> Raised(ErrRequest, t)]
        ELSE IF ping.outcome = "status_error"
        THEN \* except httpx.HTTPStatusError: raise ValueError("Invalid API Key...")
             [self |-> self, res |-> Raised(ErrInvalidKey, t)]
        ELSE IF ping.code = HTTP_OK /\ Truthy(data.org_id) /\ Truthy(data.project_id)
        THEN [self |-> [self EXCEPT !.org_id = data.org_id,
                                    !.project_id = data.project_id],
              res |-> Returned(NoBody, t)]
        ELSE [self |-> self, res |-> Returned(NoBody, t)]

\* MemoryClient.__init__(self, api_key, host, organization, project, org_id,
\* project_id) with MEM0_API_KEY = env: the attributes, the transports left
\* open and how the constructor ended.
MemoryClient_init(a, env, ping, sink_fails) ==
    LET self0 == [api_key |-> PyOr(a.api_key, env),
                  host |-> PyOr(a.host, DefaultHost),
                  organization |-> a.organization, project |-> a.project,
                  org_id |-> a.org_id, project_id |-> a.project_id,
                  user_id |-> UserId]
        v == _validate_api_key(self0, ping)
    IN  IF ~Truthy(self0.api_key)
        THEN [self |-> self0, open |-> {}, res |-> Raised(ErrNoApiKey, <<>>)]
        ELSE IF v.res.raised
        THEN [self |-> v.self, open |-> {SyncTransport}, res |-> v.res]
        ELSE [self |-> v.self, open |-> {SyncTransport},
              res |-> Capture("client.init", sink_fails, v.res.trace)]

\* AsyncMemoryClient.__init__: builds the sync client, then its own transport.
AsyncMemoryClient_init(a, env, ping, sink_fails) ==
    LET sc == MemoryClient_init(a, env, ping, sink_fails)
    IN  IF sc.res.raised THEN sc
        ELSE [sc EXCEPT !.open = sc.open \cup {AsyncTransport}]

\* ------------------------------------------------------------------ inputs

KeyArgs == {None, "k1"}
EnvKeys == {None, "k1"}
HostArgs == {None}
NameArgs == {None, "acme"}
ProjArgs == {None, "demo"}
OrgIdArgs == {None, "o1"}
ProjIdArgs == {None, "p1"}

CtorArgs ==
    [api_key : KeyArgs, host : HostArgs, organization : NameArgs, project : ProjArgs,
     org_id : OrgIdArgs, project_id : ProjIdArgs]

\* Every dict with keys among ks and values among vs.
Maps(ks, vs) == UNION {[S -> vs] : S \in SUBSET ks}

Bodies == {"r1", "r2"}
Failures == {Resp("status_error", HTTP_OK + 300, NoBody), Resp("request_error", 0, NoBody)}
OkResps == {Resp("ok", HTTP_OK, Body(d, <<>>, None, None)) : d \in Bodies}
Resps == OkResps \cup Failures

\* /v1/ping/ answers: 200 or another 2xx, with or without org_id/project_id.
PingResps ==
    {Resp("ok", c, Body("pong", <<>>, o, p)) :
        c \in {HTTP_OK, HTTP_OK + 1}, o \in {None, "o2"}, p \in {None, "p2"}}
    \cup Failures

\* The entities the server knows, and the listings it may return: the first
\* n of them, n up to MaxEntities.
AllEntities ==
    <<Entity("user", "u1"), Entity("agent", "a1"), Entity("run", "r1"),
      Entity("user", "u2")>>
Listings == {SubSeq(AllEntities, 1, n) : n \in 0..MaxEntities}

\* The server's answers to delete_users over listing l: the listing request,
\* then one answer per DELETE the client gets to send.  A script is the
\* answers up to and including the first failure, or all of them.
Scripts(l) ==
    LET ok == Resp("ok", HTTP_OK, NoBody)
        listed == Resp("ok", HTTP_OK, Body("entities", l, None, None))
    IN  {<<f>> : f \in Failures}
        \cup {<<listed>> \o [i \in 1..n |-> ok] \o <<f>> :
                 n \in 0..(Len(l) - 1), f \in Failures}
        \cup {<<listed>> \o [i \in 1..Len(l) |-> ok]}
DeleteScripts == UNION {Scripts(l) : l \in Listings}
ListingResps ==
    {Resp("ok", HTTP_OK, Body("entities", l, None, None)) : l \in Listings} \cup Failures

GenKwargs == Maps({"user_id"}, {None, "u1"})
PageKwargs ==
    Maps({"page", "page_size"}, {None, "1"})
    \cup {("user_id" :> "u1") @@ m : m \in [{"page", "page_size"} -> {None, "1"}]}
Versions == {"v1", "v2"}
\* get_all's (version, kwargs): every pagination shape under v2; under v1 and
\* under a version the code does not know, no filter or both page keys.
GetAllInputs ==
    ({"v2"} \X PageKwargs)
    \cup ({"v1", "v3"} \X {EmptyMap, ("page" :> "1") @@ ("page_size" :> "1")})
MessagesIn == {MsgStr("hi"), MsgList(<<[role |-> "assistant", content |-> "yo"]>>), MsgNone}
MemoriesIn == {<<>>, <<[memory_id |-> "m1", text |-> "t1"]>>}
FieldsIn == {None, "['custom_instructions']"}
InstructionsIn == {None, "be brief"}
CategoriesIn == {None, "['food']"}

\* ----------------------------------------------------------- state machine
\* client      "none" before construction, "sync" / "async" for a constructed
\*             MemoryClient / AsyncMemoryClient, "failed" when the
\*             constructor raised, "closed" after __aexit__
\* session     the attributes of the (embedded) MemoryClient
\* given       the identifier arguments the constructor was called with
\* transports  the HTTP transports opened and not closed
\* last        the last call: what it did and what its caller observed
\* pure        the last direct application of a helper (PureSpec)

Live == {"sync", "async"}

NoArgs == [organization |-> None, project |-> None, org_id |-> None, project_id |-> None]
Identifiers(a) ==
    [organization |-> a.organization, project |-> a.project,
     org_id |-> a.org_id, project_id |-> a.project_id]

\* The record of one call.  r is the outcome the caller observes; twin is the
\* outcome of the same call (same session, arguments, answers) on the other
\* class, for the methods both classes have.
Call(op, is_coroutine, r, twin, version, kwargs, resps) ==
    [op |-> op, coroutine |-> is_coroutine, raised |-> r.raised, err |-> r.err,
     value |-> r.value, trace |-> r.trace,
     twin |-> [raised |-> twin.raised, err |-> twin.err, trace |-> twin.trace],
     version |-> version, kwargs |-> kwargs, resps |-> resps]

Idle == Call("", FALSE, Returned(NoBody, <<>>), Returned(NoBody, <<>>), "", EmptyMap, <<>>)
PureIdle ==
    [fn |-> "", messages |-> MsgNone, input |-> NoKwargs,
     res |-> PPReturn(EmptyMap, EmptyMap)]

Init ==
    /\ client = "none"
    /\ session = NoSession
    /\ given = NoArgs
    /\ transports = {}
    /\ last = Idle
    /\ pure = PureIdle

\* MemoryClient(...)
ConstructSync ==
    /\ client = "none"
    /\ \E a \in CtorArgs, env \in EnvKeys, ping \in PingResps, sf \in BOOLEAN :
         LET c == MemoryClient_init(a, env, ping, sf)
         IN  /\ session' = c.self
             /\ given' = Identifiers(a)
             /\ transports' = c.open
             /\ client' = IF c.res.raised THEN "failed" ELSE "sync"
             /\ last' = Call("__init__", FALSE, c.res,
                             AsyncMemoryClient_init(a, env, ping, sf).res,
                             "", EmptyMap, <<ping>>)
    /\ UNCHANGED pure

\* AsyncMemoryClient(...)
ConstructAsync ==
    /\ client = "none"
    /\ \E a \in CtorArgs, env \in EnvKeys, ping \in PingResps, sf \in BOOLEAN :
         LET c == AsyncMemoryClient_init(a, env, ping, sf)
         IN  /\ session' = c.self
             /\ given' = Identifiers(a)
             /\ transports' = c.open
             /\ client' = IF c.res.raised THEN "failed" ELSE "async"
             /\ last' = Call("__init__", FALSE, c.res,
                             MemoryClient_init(a, env, ping, sf).res,
                             "", EmptyMap, <<ping>>)
    /\ UNCHANGED pure

\* AsyncMemoryClient.__aexit__: await self.async_client.aclose()
Aexit ==
    /\ client = "async"
    /\ client' = "closed"
    /\ transports' = transports \ {AsyncTransport}
    /\ last' = Call("__aexit__", TRUE, Returned(NoBody, <<>>), Returned(NoBody, <<>>),
                    "", EmptyMap, <<>>)
    /\ UNCHANGED <<session, given, pure>>

\* A call of a decorated method on the live client: the sync method runs
\* inside the decorator's try, the async one is awaited by the caller.
Invoke(op, sync_r, async_r, version, kwargs, resps) ==
    IF client = "sync"
    THEN Call(op, FALSE, api_error_handler(FALSE, sync_r),
              api_error_handler(TRUE, async_r), version, kwargs, resps)
    ELSE Call(op, TRUE, api_error_handler(TRUE, async_r),
              api_error_handler(FALSE, sync_r), version, kwargs, resps)

\* No operation assigns to the client, its session or its transports.
frame == <<client, session, given, transports, pure>>

Add ==
    /\ client \in Live
    /\ \E m \in MessagesIn, kw \in GenKwargs, r \in Resps, sf \in BOOLEAN :
        last' = Invoke("add", add(session, m, kw, <<r>>, sf),
               async_add(session, m, kw, <<r>>, sf), "", kw, <<r>>)
    /\ UNCHANGED frame

Get ==
    /\ client \in Live
    /\ \E r \in Resps, sf \in BOOLEAN :
        last' = Invoke("get", get(session, "m1", <<r>>, sf),
               async_get(session, "m1", <<r>>, sf), "", EmptyMap, <<r>>)
    /\ UNCHANGED frame

GetAll ==
    /\ client \in Live
    /\ \E i \in GetAllInputs, r \in Resps, sf \in BOOLEAN :
        last' = Invoke("get_all", get_all(session, i[1], i[2], <<r>>, sf),
                       async_get_all(session, i[1], i[2], <<r>>, sf), i[1], i[2], <<r>>)
    /\ UNCHANGED frame

Search ==
    /\ client \in Live
    /\ \E v \in Versions, kw \in GenKwargs, r \in Resps, sf \in BOOLEAN :
        last' = Invoke("search", search(session, "q1", v, kw, <<r>>, sf),
               async_search(session, "q1", v, kw, <<r>>, sf), v, kw, <<r>>)
    /\ UNCHANGED frame

Update ==
    /\ client \in Live
    /\ \E r \in Resps, sf \in BOOLEAN :
        last' = Invoke("update", update(session, "m1", "d1", <<r>>, sf),
               async_update(session, "m1", "d1", <<r>>, sf), "", EmptyMap, <<r>>)
    /\ UNCHANGED frame

Delete ==
    /\ client \in Live
    /\ \E r \in Resps, sf \in BOOLEAN :
        last' = Invoke("delete", delete(session, "m1", <<r>>, sf),
               async_delete(session, "m1", <<r>>, sf), "", EmptyMap, <<r>>)
    /\ UNCHANGED frame

DeleteAll ==
    /\ client \in Live
    /\ \E kw \in GenKwargs, r \in Resps, sf \in BOOLEAN :
        last' = Invoke("delete_all", delete_all(session, kw, <<r>>, sf),
               async_delete_all(session, kw, <<r>>, sf), "", kw, <<r>>)
    /\ UNCHANGED frame

History ==
    /\ client \in Live
    /\ \E r \in Resps, sf \in BOOLEAN :
        last' = Invoke("history", history(session, "m1", <<r>>, sf),
               async_history(session, "m1", <<r>>, sf), "", EmptyMap, <<r>>)
    /\ UNCHANGED frame

Users ==
    /\ client \in Live
    /\ \E r \in ListingResps, sf \in BOOLEAN :
        last' = Invoke("users", users(session, <<>>, r, sf),
               async_users(session, <<>>, r, sf), "", EmptyMap, <<r>>)
    /\ UNCHANGED frame

DeleteUsers ==
    /\ client \in Live
    /\ \E rs \in DeleteScripts, sf \in BOOLEAN :
        last' = Invoke("delete_users", delete_users(session, <<>>, rs, sf),
               async_delete_users(session, <<>>, rs, sf), "", EmptyMap, rs)
    /\ UNCHANGED frame

Reset ==
    /\ client \in Live
    /\ \E rs \in DeleteScripts, sf \in BOOLEAN :
        last' = Invoke("reset", reset(session, rs, sf), async_reset(session, rs, sf),
               "", EmptyMap, rs)
    /\ UNCHANGED frame

BatchUpdate ==
    /\ client \in Live
    /\ \E ms \in MemoriesIn, r \in Resps, sf \in BOOLEAN :
        last' = Invoke("batch_update", batch_update(session, ms, <<r>>, sf),
               async_batch_update(session, ms, <<r>>, sf), "", EmptyMap, <<r>>)
    /\ UNCHANGED frame

BatchDelete ==
    /\ client \in Live
    /\ \E ms \in MemoriesIn, r \in Resps, sf \in BOOLEAN :
        last' = Invoke("batch_delete", batch_delete(session, ms, <<r>>, sf),
               async_batch_delete(session, ms, <<r>>, sf), "", EmptyMap, <<r>>)
    /\ UNCHANGED frame

CreateMemoryExport ==
    /\ client \in Live
    /\ \E kw \in GenKwargs, r \in Resps, sf \in BOOLEAN :
        last' = Invoke("create_memory_export",
               create_memory_export(session, "s1", kw, <<r>>, sf),
               async_create_memory_export(session, "s1", kw, <<r>>, sf),
               "", kw, <<r>>)
    /\ UNCHANGED frame

GetMemoryExport ==
    /\ client \in Live
    /\ \E kw \in GenKwargs, r \in Resps, sf \in BOOLEAN :
        last' = Invoke("get_memory_export", get_memory_export(session, kw, <<r>>, sf),
               async_get_memory_export(session, kw, <<r>>, sf), "", kw, <<r>>)
    /\ UNCHANGED frame

GetProject ==
    /\ client \in Live
    /\ \E f \in FieldsIn, r \in Resps, sf \in BOOLEAN :
        last' = Invoke("get_project", get_project(session, f, <<r>>, sf),
               async_get_project(session, f, <<r>>, sf), "", ("fields" :> f), <<r>>)
    /\ UNCHANGED frame

UpdateProject ==
    /\ client \in Live
    /\ \E ci \in InstructionsIn, cc \in CategoriesIn, r \in Resps, sf \in BOOLEAN :
        last' = Invoke("update_project", update_project(session, ci, cc, <<r>>, sf),
               async_update_project(session, ci, cc, <<r>>, sf), "",
               ("custom_instructions" :> ci) @@ ("custom_categories" :> cc), <<r>>)
    /\ UNCHANGED frame

\* chat() is not decorated and raises at once in both clients.
Chat ==
    /\ client \in Live
    /\ last' = Call("chat", client = "async", chat, chat, "", EmptyMap, <<>>)
    /\ UNCHANGED frame

Next ==
    \/ ConstructSync \/ ConstructAsync \/ Aexit
    \/ Add \/ Get \/ GetAll \/ Search \/ Update \/ Delete \/ DeleteAll \/ History
    \/ Users \/ DeleteUsers \/ Reset \/ BatchUpdate \/ BatchDelete
    \/ CreateMemoryExport \/ GetMemoryExport \/ GetProject \/ UpdateProject \/ Chat

Spec == Init /\ [][Next]_vars

\* --------------------------------------------- the helpers, applied directly
\* _prepare_params over every session (also the ones no constructor lets
\* through) and every input of the bounded sets.

AllSessions ==
    [api_key : {"k1"}, host : {DefaultHost}, organization : {None, "", "acme"},
     project : {None, "", "demo"}, org_id : {None, "", "o1"},
     project_id : {None, "", "p1"}, user_id : {UserId}]

PPInputs ==
    {NoKwargs} \cup {Kw(m) : m \in Maps({"org_id", "project_id", "user_id"},
                                        {None, "", "zz"})}

PureInit ==
    /\ client = "none"
    /\ session \in AllSessions
    /\ given = NoArgs
    /\ transports = {}
    /\ last = Idle
    /\ pure = PureIdle

PrepareParams ==
    /\ \E kw \in PPInputs :
         pure' = [fn |-> "_prepare_params", messages |-> MsgNone, input |-> kw,
                  res |-> _prepare_params(session, kw)]
    /\ UNCHANGED <<client, session, given, transports, last>>

\* The messages and options _prepare_payload is applied to.  The options are
\* keyword arguments of add(messages, **kwargs), null values included:
\* `messages` is bound to add's parameter and is never a key of them.
PayloadMessages ==
    {MsgStr("hi"), MsgStr(""), MsgList(<<>>),
     MsgList(<<[role |-> "assistant", content |-> "yo"]>>),
     MsgList(<<[role |-> "user", content |-> "a"], [role |-> "assistant", content |-> "b"]>>),
     MsgNone}
PayloadOptions == Maps({"user_id", "metadata"}, {None, "", "zz"})

\* self._prepare_payload(messages, kwargs); it reads no attribute of self and
\* leaves kwargs as it was.
PreparePayload ==
    /\ \E m \in PayloadMessages, kw \in PayloadOptions :
         pure' = [fn |-> "_prepare_payload", messages |-> m, input |-> Kw(kw),
                  res |-> PPReturn(_prepare_payload(m, kw), kw)]
    /\ UNCHANGED <<client, session, given, transports, last>>

PureNext == PrepareParams \/ PreparePayload

PureSpec == PureInit /\ [][PureNext]_vars

\* ------------------------------------------------------------------ claims

\* The input mapping of the last direct application (an absent one is empty).
PureIn == IF pure.input.given THEN pure.input.map ELSE EmptyMap
PrepareParamsApplied == pure.fn = "_prepare_params"

IdPairSet(self) == Truthy(self.org_id) /\ Truthy(self.project_id)
NoNameSet(self) == ~Truthy(self.organization) /\ ~Truthy(self.project)
NoIdSet(self) == ~Truthy(self.org_id) /\ ~Truthy(self.project_id)

\* C1: for a session with org ID and project ID both set and no legacy name
\* set, _prepare_params succeeds on every input and its output carries the
\* session's org_id and project_id, whatever the input held under those keys.
C1_IdPairInjected ==
    (PrepareParamsApplied /\ IdPairSet(session) /\ NoNameSet(session))
    => /\ pure.res.ok
       /\ {"org_id", "project_id"} \subseteq DOMAIN pure.res.out
       /\ pure.res.out["org_id"] = session.org_id
       /\ pure.res.out["project_id"] = session.project_id

\* C1 witness: the input held other values for both keys and the output
\* holds the session's.
C1_Witness ==
    /\ PrepareParamsApplied /\ IdPairSet(session) /\ NoNameSet(session)
    /\ pure.input.given
    /\ {"org_id", "project_id"} \subseteq DOMAIN PureIn
    /\ PureIn["org_id"] = "zz" /\ PureIn["project_id"] = "zz"
    /\ pure.res.ok
    /\ pure.res.out["org_id"] = session.org_id /\ session.org_id /= "zz"

\* C2: for a session with no org ID, project ID or legacy name set,
\* _prepare_params returns exactly the input's entries whose value is not
\* null, unchanged, and nothing else; an absent input gives the empty mapping.
C2_NonNullEntriesOnly ==
    (PrepareParamsApplied /\ NoIdSet(session) /\ NoNameSet(session))
    => /\ pure.res.ok
       /\ DOMAIN pure.res.out = {k \in DOMAIN PureIn : PureIn[k] /= None}
       /\ \A k \in DOMAIN pure.res.out : pure.res.out[k] = PureIn[k]

\* C2 witness: an input with a null entry and a non-null one; the output
\* keeps the second only.
C2_Witness ==
    /\ PrepareParamsApplied /\ NoIdSet(session) /\ NoNameSet(session)
    /\ pure.input.given
    /\ DOMAIN PureIn = {"org_id", "user_id"}
    /\ PureIn["org_id"] = None /\ PureIn["user_id"] = "zz"
    /\ pure.res.ok /\ DOMAIN pure.res.out = {"user_id"}

IllFormed(self) ==
    \/ (Truthy(self.org_id) \/ Truthy(self.project_id))
       /\ (Truthy(self.organization) \/ Truthy(self.project))
    \/ Truthy(self.org_id) /= Truthy(self.project_id)
    \/ Truthy(self.organization) /= Truthy(self.project)

\* C3: on a session that mixes the ID pair with the legacy name pair, or has
\* exactly one of org ID / project ID, or exactly one of the legacy names,
\* _prepare_params raises the configuration error for every input and returns
\* no mapping.
C3_IllFormedSessionRaises ==
    (PrepareParamsApplied /\ IllFormed(session))
    => /\ ~pure.res.ok
       /\ pure.res.err \in {ErrNotBoth, ErrIdPair, ErrNamePair}
       /\ pure.res.out = EmptyMap

\* C3 witness: a lone legacy project name, no ID set, a non-empty input.
C3_Witness ==
    /\ PrepareParamsApplied
    /\ NoIdSet(session) /\ ~Truthy(session.organization) /\ Truthy(session.project)
    /\ pure.input.given /\ DOMAIN PureIn /= {}
    /\ ~pure.res.ok /\ pure.res.err = ErrNamePair

\* The requests of a trace, in order, and its telemetry events.
IsRequest(e) == e.kind = "request"
IsDelete(e) == e.kind = "request" /\ e.name = "DELETE"
IsTelemetry(e) == e.kind = "telemetry"
Requests(trace) == SelectSeq(trace, IsRequest)
Deletes(trace) == SelectSeq(trace, IsDelete)

\* The public operations (the decorated methods).
Operations ==
    {"add", "get", "get_all", "search", "update", "delete", "delete_all", "history",
     "users", "delete_users", "reset", "batch_update", "batch_delete",
     "create_memory_export", "get_memory_export", "get_project", "update_project"}

\* The listing a delete_users call received, once its listing request was
\* answered.
Listed ==
    /\ last.op = "delete_users"
    /\ Requests(last.trace) /= <<>>
    /\ last.resps[1].outcome = "ok"
ListedEntities == last.resps[1].body.results

\* The server fails the k-th per-entity DELETE (and answered the k-1 before).
KthDeleteFails(k) ==
    /\ Len(last.resps) = k + 1
    /\ last.resps[k + 1].outcome /= "ok"

\* C4: in delete_users (sync and async), when the k-th per-entity DELETE fails,
\* the DELETEs issued are exactly those of entities 1..k in listing order, the
\* first k-1 succeeded, the call raises right after the k-th, and no DELETE
\* for entities k+1..N is issued.
C4_DeleteUsersShortCircuit ==
    Listed =>
        \A k \in 1..Len(ListedEntities) :
            KthDeleteFails(k) =>
                LET dels == Deletes(last.trace)
                IN  /\ Len(dels) = k
                    /\ \A i \in 1..k : dels[i].path = EntityPath(ListedEntities[i])
                    /\ \A i \in 1..(k - 1) : dels[i].outcome = "ok"
                    /\ dels[k].outcome = last.resps[k + 1].outcome
                    /\ last.trace[Len(last.trace)] = dels[k]
                    /\ last.raised
                    /\ last.err \in {ErrAPI, ErrHTTPStatus, ErrRequest}

\* C4 witness: two entities listed, the first DELETE fails, one DELETE issued.
C4_Witness ==
    /\ Listed /\ Len(ListedEntities) = 2 /\ KthDeleteFails(1)
    /\ Len(Deletes(last.trace)) = 1
    /\ last.raised

PageKeys == {"page", "page_size"}
Supplied(kw, k) == k \in DOMAIN kw /\ kw[k] /= None

\* The request of a get_all call that got as far as sending one.
GetAllV2Sent ==
    /\ last.op = "get_all" /\ last.version = "v2"
    /\ Requests(last.trace) /= <<>>

\* The query/body split of C5, for the call recorded in last.
PaginationSplit ==
    LET kw == last.kwargs
        req == Requests(last.trace)[1]
        filters == _prepare_params(session, Kw(kw)).out
    IN  /\ (Supplied(kw, "page") /\ Supplied(kw, "page_size"))
           => /\ req.params = [k \in PageKeys |-> kw[k]]
              /\ req.json = [k \in (DOMAIN filters) \ PageKeys |-> filters[k]]
        /\ (Supplied(kw, "page") /= Supplied(kw, "page_size"))
           => /\ req.params = EmptyMap
              /\ req.json = filters

\* C5: get_all with version "v2" sends page and page_size as the query
\* parameters and the other filters as the JSON body when both are supplied,
\* and everything in the JSON body when only one is; in both clients.
C5_PaginationSplitBothClients == GetAllV2Sent => PaginationSplit

\* The same for MemoryClient alone.
C5_PaginationSplitSync == (GetAllV2Sent /\ ~last.coroutine) => PaginationSplit

\* A request of the call failed (transport error or non-2xx status).
SomeRequestFailed == \E i \in DOMAIN last.trace :
    IsRequest(last.trace[i]) /\ last.trace[i].outcome /= "ok"

\* C6: in every operation of both clients, a transport failure or a non-2xx
\* response reaches the caller as APIError, never as the httpx exception; it
\* is not suppressed and the request is not sent again.
C6_FailuresSurfaceAsAPIError ==
    (last.op \in Operations /\ SomeRequestFailed)
    => /\ last.raised
       /\ last.err = ErrAPI
       /\ last.trace[Len(last.trace)].outcome /= "ok"
       /\ \A i \in 1..(Len(last.trace) - 1) :
              IsRequest(last.trace[i]) => last.trace[i].outcome = "ok"

\* The same for MemoryClient alone.
C6_FailuresSurfaceAsAPIErrorSync ==
    ~last.coroutine => C6_FailuresSurfaceAsAPIError

ConfigurationErrors ==
    {ErrNoApiKey, ErrNotBoth, ErrIdPair, ErrNamePair, ErrProjectIds, ErrProjectArgs}

\* C7: a call that raises a configuration error (no API key, contradictory or
\* unpaired identifiers, project settings without both IDs) has issued no
\* HTTP request.
C7_ConfigErrorBeforeAnyRequest ==
    (last.raised /\ last.err \in ConfigurationErrors) => Requests(last.trace) = <<>>

\* C7 witness: get_project on a live client without IDs raises with no request.
C7_Witness ==
    /\ client \in Live /\ last.op = "get_project"
    /\ last.raised /\ last.err = ErrProjectIds
    /\ Requests(last.trace) = <<>>

MixedIdentifiers(self) ==
    /\ Truthy(self.org_id) \/ Truthy(self.project_id)
    /\ Truthy(self.organization) \/ Truthy(self.project)

\* C8: a constructed client never has a legacy name and an ID set together,
\* so its reconciliation never fails with the 'not both' error.
C8_NamesAndIdsExclusive ==
    client \in Live => (~MixedIdentifiers(session) /\ last.err /= ErrNotBoth)

\* C9: when the caller supplied org ID / project ID, the constructed client's
\* org_id and project_id are the caller's: the probe writes them only when
\* the caller supplied neither.
C9_ProbeKeepsCallerIds ==
    (client \in Live /\ (Truthy(given.org_id) \/ Truthy(given.project_id)))
    => /\ session.org_id = given.org_id
       /\ session.project_id = given.project_id

\* No operation after construction changes a session attribute.
C9_SessionFrame == [][(client \in Live) => (session' = session)]_vars

SinkFailed == \E i \in DOMAIN last.trace :
    IsTelemetry(last.trace[i]) /\ last.trace[i].outcome = "sink_failed"
HttpSucceeded ==
    /\ Requests(last.trace) /= <<>>
    /\ ~SomeRequestFailed

\* What a call returns when nothing fails.
Decoded ==
    IF last.op = "delete_users" THEN MsgUsersDeleted
    ELSE IF last.op = "reset" THEN MsgReset
    ELSE IF last.op = "__init__" THEN NoBody
    ELSE last.resps[1].body

\* C10: when the telemetry sink fails during a call (an operation of either
\* client, or construction) whose HTTP exchange succeeded, the call does not
\* raise and returns what it returns otherwise: the decoded response.
C10_TelemetryFailureNotSurfaced ==
    (SinkFailed /\ HttpSucceeded) => (~last.raised /\ last.value = Decoded)

\* C10 witness: add with the sink failing returns the server's body.
C10_Witness ==
    /\ last.op = "add" /\ SinkFailed /\ HttpSucceeded
    /\ ~last.raised /\ last.value = last.resps[1].body
    /\ last.value.data = "r2"

\* The request carries the session's org_id and project_id, each in its query
\* parameters or in its JSON body.
CarriesIds(req, self) ==
    \A k \in {"org_id", "project_id"} :
        \/ k \in DOMAIN req.params /\ req.params[k] = self[k]
        \/ k \in DOMAIN req.json /\ req.json[k] = self[k]

\* The operations that reconcile (call _prepare_params) in MemoryClient.
ReconcilingOperations == Operations \ {"batch_update", "batch_delete"}

\* What C11 says of the call recorded in last.
RequestsReconciled ==
    /\ (IdPairSet(session) /\ NoNameSet(session))
       => \A i \in DOMAIN Requests(last.trace) :
              CarriesIds(Requests(last.trace)[i], session)
    /\ IllFormed(session) => Requests(last.trace) = <<>>

\* C11: every operation of both clients reconciles before it sends: on a
\* session with org ID and project ID set every request of the call carries
\* org_id and project_id in its query parameters or JSON body, and on an
\* ill-formed session the call sends no request.
C11_EveryRequestReconciled ==
    (client \in Live /\ last.op \in Operations) => RequestsReconciled

\* The same without batch_update and batch_delete.
C11_ReconciledExceptBatch ==
    (client \in Live /\ last.op \in ReconcilingOperations) => RequestsReconciled

\* The caller's dict after the last direct application of _prepare_params.
InputAfter == pure.res.kwargs_after

\* C12: _prepare_params leaves the mapping it was handed as it was: the same
\* keys and the same values after the call as before, whatever the session,
\* also when the session has an identifier pair set.
C12_InputMappingUnchanged ==
    (PrepareParamsApplied /\ pure.input.given) => InputAfter = pure.input.map

\* The same on sessions with no identifier pair set (nothing to inject).
C12_InputUnchangedWithoutPair ==
    (PrepareParamsApplied /\ pure.input.given
     /\ ~IdPairSet(session) /\ ~(Truthy(session.organization) /\ Truthy(session.project)))
    => InputAfter = pure.input.map

\* _prepare_params assigns no attribute of the session.
C12_SessionUnchanged == [][session' = session]_vars

\* The call recorded in last as MemoryClient runs it and as AsyncMemoryClient
\* runs it.
SyncOutcome ==
    IF last.coroutine THEN last.twin
    ELSE [raised |-> last.raised, err |-> last.err, trace |-> last.trace]
AsyncOutcome ==
    IF last.coroutine
    THEN [raised |-> last.raised, err |-> last.err, trace |-> last.trace]
    ELSE last.twin

\* The sync call failed before sending anything.
SyncFailedLocally == SyncOutcome.raised /\ Requests(SyncOutcome.trace) = <<>>

\* The async call does what the sync call does: the same requests (method,
\* path, query parameters, JSON body, in order) when the sync call sends any,
\* the same error and no request when the sync call fails locally.
Mirrored ==
    /\ Requests(SyncOutcome.trace) /= <<>>
       => Requests(AsyncOutcome.trace) = Requests(SyncOutcome.trace)
    /\ SyncFailedLocally
       => /\ AsyncOutcome.raised
          /\ AsyncOutcome.err = SyncOutcome.err
          /\ Requests(AsyncOutcome.trace) = <<>>

\* The operations whose async body differs from the sync one.
UnmirroredOperations ==
    {"get_all", "create_memory_export", "get_memory_export", "get_project",
     "update_project"}

\* C13: for each operation the async client does what the sync client does on
\* the same session and arguments: the same method, path, query parameters
\* and JSON body when the sync operation sends a request, the same error with
\* no request sent when the sync operation fails locally.
C13_AsyncMirrorsSync ==
    (client \in Live /\ last.op \in Operations) => Mirrored

\* The same for the operations outside UnmirroredOperations.
C13_MirroredElsewhere ==
    (client \in Live /\ last.op \in Operations \ UnmirroredOperations) => Mirrored

\* The constructor failed at the probe: invalid key or transport failure.
ProbeFailed ==
    /\ client = "failed" /\ last.op = "__init__"
    /\ last.err \in {ErrInvalidKey, ErrRequest}

\* C14: once an AsyncMemoryClient's scoped use has ended, or a constructor
\* has failed at the probe, no transport the instance opened is left open.
C14_TransportsReleased == (client = "closed" \/ ProbeFailed) => transports = {}

\* The part about scoped use alone, and the part about construction alone.
C14_ReleasedAfterAexit == client = "closed" => transports = {}
C14_ReleasedAfterFailedProbe == ProbeFailed => transports = {}

\* __aexit__ does close the transport AsyncMemoryClient itself created.
C14_AsyncTransportClosed == client = "closed" => AsyncTransport \notin transports

PreparePayloadApplied == pure.fn = "_prepare_payload"

\* The payload built by the last direct application, its messages argument
\* and its options.
Payload == pure.res.out
PayloadArg == pure.messages
Options == pure.input.map

\* Every option with a non-null value is a top-level field of the payload,
\* with that value, and no option with a null value is a field of it.
OptionsMerged ==
    \A k \in DOMAIN Options :
        IF Options[k] = None THEN k \notin DOMAIN Payload
        ELSE k \in DOMAIN Payload /\ Payload[k] = Options[k]

EventNames(op) ==
    IF op = "get_project" THEN {"client.get_project_details", "async_client.get_project"}
    ELSE {"client." \o op, "async_client." \o op}

\* What C16 says of the trace of the call recorded in last: an event comes
\* after a request and after 2xx answers only; the operation's own event
\* comes after all its requests; a call with a failed request has emitted no
\* event of its own.
TelemetryAfterSuccess ==
    LET t == last.trace
    IN  /\ \A i \in DOMAIN t :
               IsTelemetry(t[i])
               => /\ \E j \in 1..(i - 1) : IsRequest(t[j])
                  /\ \A j \in 1..(i - 1) : IsRequest(t[j]) => t[j].outcome = "ok"
        /\ \A i \in DOMAIN t :
               (IsTelemetry(t[i]) /\ t[i].name \in EventNames(last.op))
               => \A j \in DOMAIN t : IsRequest(t[j]) => j < i
        /\ SomeRequestFailed
           => \A i \in DOMAIN t :
                  IsTelemetry(t[i]) => t[i].name \notin EventNames(last.op)

\* C16: in every operation of both clients the telemetry event is emitted
\* only after the operation's HTTP call returned a 2xx response: never before
\* the request is issued, and not at all when the request fails.
C16_TelemetryOnlyAfterSuccess ==
    (client \in Live /\ last.op \in Operations) => TelemetryAfterSuccess

\* The same for every operation but MemoryClient.update.
C16_TelemetryAfterSuccessElsewhere ==
    (client \in Live /\ last.op \in Operations /\ (last.op = "update" => last.coroutine))
    => TelemetryAfterSuccess

====
